---- MODULE Spec2Model ----
(***************************************************************************)
(* Model of ni_can_epos.c: the signal-I/O driver of one EPOS CANopen node. *)
(* The registry (tasksList), the Task aggregate, the control-word          *)
(* sequences and the PDO codec are translated from the source; the CAN     *)
(* transport (can_network.h), khash and libc are modelled by what the      *)
(* driver observes of them.                                                *)
(*                                                                         *)
(* C values: a double is an exact rational [n, d] (d > 0, lowest terms);   *)
(* bool and size_t results are 0/1; a pointer is <<>> (NULL) or <<obj>>;   *)
(* a CANFrame handle is 0 (NULL) or a positive binding id; a payload is a  *)
(* tuple of 8 bytes, payload[i] of the code being p[i+1] here.             *)
(***************************************************************************)
EXTENDS Integers, Sequences, FiniteSets, TLC

\* ------------------------------------------------------------ enumerations
INPUT_POSITION == 0
INPUT_VELOCITY == 1
INPUT_CURRENT == 2
INPUT_ANALOG == 3
INPUT_CHANNELS_NUMBER == 4

OUTPUT_POSITION == 0
OUTPUT_VELOCITY == 1
OUTPUT_CURRENT == 2
OUTPUT_CHANNELS_NUMBER == 3

FAULT == 8

SWITCH_ON == 1
ENABLE_VOLTAGE == 2
QUICK_STOP == 4
ENABLE_OPERATION == 8
FAULT_RESET == 128

\* can_network.h: the frame kinds and directions of a node
SDO == 0
PDO01 == 1
PDO02 == 2
CAN_FRAME_TYPES_NUMBER == 3
FRAME_IN == 0
FRAME_OUT == 1

\* object dictionary entries and the settle delay used by the driver
CONTROL_WORD_INDEX == 24640
OPERATION_MODE_INDEX == 24672
SETTLE_DELAY_MS == 200

\* mutant: the current channel is given the code of the velocity channel
OPERATION_MODES_Repeated == <<255, 254, 254>>

OPERATION_MODES == <<255, 254, 253>>

\* --------------------------------------------------------- integer helpers
\* TLC's integers are 32 bits wide, so a value that may leave the int
\* range (an unsigned int, a double) is kept as 16-bit limbs [hi, lo] standing
\* for hi * 2^16 + lo with lo in 0..65535 (hi is negative for a negative value).
\* A double is [hi, lo, fn, fd]: the integer floor [hi, lo] plus the fraction
\* fn / fd in [0, 1), in lowest terms. Every double of the model is exact.
W16 == 2^16
HalfW16 == 2^15

RECURSIVE Gcd(_, _)
Gcd(a, b) == IF b = 0 THEN a ELSE Gcd(b, a % b)

Big(hi, lo) == [hi |-> hi, lo |-> lo]

\* the limbs of an int
BigOfInt(x) == Big(x \div W16, x % W16)

\* the int of limbs within the int range
IntOfBig(t) == t.hi * W16 + t.lo

\* the double of an int, and the double n / d (d > 0)
Dbl(x) == [hi |-> x \div W16, lo |-> x % W16, fn |-> 0, fd |-> 1]
Rat(n, d) ==
  LET q == n \div d
      r == n % d
      g == Gcd(r, d)
  IN [hi |-> q \div W16, lo |-> q % W16, fn |-> r \div g, fd |-> d \div g]

\* the double of an unsigned 32-bit sum given by its limbs
DblOfBig(t) == [hi |-> t.hi, lo |-> t.lo, fn |-> 0, fd |-> 1]

\* value * 1000.0 (exact for the values of the model)
Times1000(v) ==
  LET f == v.fn * 1000
      c == f \div v.fd
      r == f % v.fd
      g == Gcd(r, v.fd)
      l == v.lo * 1000 + c
  IN [hi |-> v.hi * 1000 + l \div W16, lo |-> l % W16,
      fn |-> r \div g, fd |-> v.fd \div g]

\* value < 0.0
IsNegative(v) == v.hi < 0

\* the truncation toward zero of a double, as limbs
TruncBig(v) ==
  IF v.hi < 0 /\ v.fn # 0
  THEN (IF v.lo + 1 = W16 THEN Big(v.hi + 1, 0) ELSE Big(v.hi, v.lo + 1))
  ELSE Big(v.hi, v.lo)

\* (int) of a double within the int range
TruncToInt(v) == IntOfBig(TruncBig(v))

\* conversions to the narrower C integer types (two's complement)
ToU16(x) == x % W16
ToI16(x) == LET u == x % W16 IN IF u >= HalfW16 THEN u - W16 ELSE u
ToU8(x) == x % 256

\* (int) of an unsigned int given by its limbs
ToI32(t) == IF t.hi >= HalfW16 THEN (t.hi - W16) * W16 + t.lo ELSE t.hi * W16 + t.lo

\* the unsigned 32-bit limbs of an int
U32(x) == Big((x \div W16) % W16, x % W16)

\* a & b of two 16-bit operands, bit by bit: p is the weight of the bit
AndBit(a, b, p) == ((a \div p) % 2) * ((b \div p) % 2) * p

AndSum(a, b) ==
  AndBit(a, b, 1) + AndBit(a, b, 2) + AndBit(a, b, 4) + AndBit(a, b, 8)
  + AndBit(a, b, 16) + AndBit(a, b, 32) + AndBit(a, b, 64) + AndBit(a, b, 128)
  + AndBit(a, b, 256) + AndBit(a, b, 512) + AndBit(a, b, 1024) + AndBit(a, b, 2048)
  + AndBit(a, b, 4096) + AndBit(a, b, 8192) + AndBit(a, b, 16384) + AndBit(a, b, 32768)

AndNat(a, b) == CHOOSE r \in {AndSum(x[1], x[2]) : x \in {<<a, b>>}} : TRUE

\* uint16_t word |= flag ; word &= ~flag
SetFlag(word, flag) == IF AndNat(word, flag) # 0 THEN word ELSE word + flag
ClearFlag(word, flag) == IF AndNat(word, flag) # 0 THEN word - flag ELSE word

ZeroPayload == <<0, 0, 0, 0, 0, 0, 0, 0>>
ZeroMeasures == <<Dbl(0), Dbl(0), Dbl(0), Dbl(0)>>

\* ------------------------------------------------------------------ libc
\* value of a digit character in strtoul, 99 when it is no digit
DigitVal(c) ==
  IF c >= 48 /\ c <= 57 THEN c - 48
  ELSE IF c >= 97 /\ c <= 122 THEN c - 87
  ELSE IF c >= 65 /\ c <= 90 THEN c - 55
  ELSE 99

RECURSIVE ParseDigits(_, _, _, _)
ParseDigits(s, i, base, acc) ==
  IF i > Len(s) \/ DigitVal(s[i]) >= base THEN acc
  ELSE ParseDigits(s, i + 1, base, acc * base + DigitVal(s[i]))

\* strtoul( s, NULL, 0 ) of a text without leading blanks or sign
strtoul(s) ==
  IF Len(s) >= 3 /\ s[1] = 48 /\ s[2] \in {120, 88} /\ DigitVal(s[3]) < 16
  THEN ParseDigits(s, 3, 16, 0)
  ELSE IF Len(s) >= 1 /\ s[1] = 48 THEN ParseDigits(s, 2, 8, 0)
  ELSE ParseDigits(s, 1, 10, 0)

\* ----------------------------------------------------------------- khash
\* h = (h << 5) - h + *s on a khint_t (unsigned 32 bits), as limbs
RECURSIVE X31(_, _, _)
X31(s, i, h) ==
  IF i > Len(s) THEN h
  ELSE LET l == h.lo * 31 + s[i]
       IN X31(s, i + 1, Big((h.hi * 31 + l \div W16) % W16, l % W16))

\* kh_str_hash_func: h = *s, then the step above for the following characters
kh_str_hash_func(s) == IF Len(s) = 0 THEN Big(0, 0) ELSE X31(s, 2, Big(0, s[1]))

\* kh_put's status: 0 when the key is already in the table, positive otherwise
kh_put_status(map, key) == IF key \in DOMAIN map THEN 0 ELSE 1

\* kh_del
kh_del(map, key) == [k \in DOMAIN map \ {key} |-> map[k]]

EmptyMap == [k \in {} |-> <<>>]

\* ------------------------------------------------------------- transport
\* a live frame binding: its kind, direction, node and current payload buffer.
\* The handle of a new binding is the first free one of the slots the
\* transport keeps for that kind, direction and node.
FrameSlot(type, dir, node, j) == node * 64 + j * 8 + type * 2 + dir + 1

NewFrameId(fr, type, dir, node) ==
  LET j == CHOOSE i \in 0..7 :
             /\ FrameSlot(type, dir, node, i) \notin DOMAIN fr
             /\ \A l \in 0..(i - 1) : FrameSlot(type, dir, node, l) \in DOMAIN fr
  IN FrameSlot(type, dir, node, j)

\* CANNetwork_InitFrame: a new binding, or NULL when the transport refuses
CANNetwork_InitFrame(fr, type, dir, node, refused) ==
  IF refused THEN [h |-> 0, frames |-> fr]
  ELSE LET id == NewFrameId(fr, type, dir, node) IN
       [h |-> id,
        frames |-> fr @@ (id :> [type |-> type, dir |-> dir, node |-> node,
                                 data |-> ZeroPayload])]

\* CANNetwork_EndFrame: releases a binding, accepts NULL
CANNetwork_EndFrame(fr, h) == [k \in DOMAIN fr \ {h} |-> fr[k]]

\* CANFrame_Write: copies the payload into the frame's buffer
CANFrame_Write(fr, h, payload) ==
  IF h \in DOMAIN fr THEN [fr EXCEPT ![h].data = payload] ELSE fr

\* what a loopback bus delivers to an inbound frame at a sync: the payload of
\* the outbound frame of the same kind and node
LoopbackData(fr, h) ==
  LET outs == {o \in DOMAIN fr : /\ fr[o].dir = FRAME_OUT
                                 /\ fr[o].type = fr[h].type
                                 /\ fr[o].node = fr[h].node}
  IN IF outs = {} THEN ZeroPayload ELSE fr[CHOOSE o \in outs : TRUE].data

\* trace entries of the transport and timing calls
EvInit(type, dir, node, h) == <<"InitFrame", type, dir, node, h>>
EvEnd(h) == <<"EndFrame", h>>
EvSdo(h, index, sub, value) == <<"WriteSingleValue", h, index, sub, value>>
EvDelay(ms) == <<"Delay", ms>>
EvSync == <<"Sync">>
EvRead(h) == <<"FrameRead", h>>
EvWrite(h, payload) == <<"FrameWrite", h, payload>>

\* ----------------------------------------------------------- frame codec
\* payload[3] * 0x1000000 + payload[2] * 0x10000 + payload[1] * 0x100 + payload[0]
\* evaluated in int and stored in a double. For payload[3] >= 0x80 the int
\* product overflows (undefined): a build that evaluates in 32 bits wraps to
\* the negative value, one that evaluates in a wider register keeps the sum.
DecodeCounts(p) ==
  LET sum == Big(p[4] * 256 + p[3], p[2] * 256 + p[1])
  IN IF sum.hi >= HalfW16 THEN {Dbl(ToI32(sum)), DblOfBig(sum)} ELSE {Dbl(ToI32(sum))}

\* int currentHEX = payload[5] * 0x100 + payload[4]
DecodeCurrentHEX(p) == p[6] * 256 + p[5]

\* mutant: the two's-complement decoding, which subtracts 0x10000
DecodeCurrentMA_TwosComplement(currentHEX) ==
  currentHEX - (IF currentHEX >= 32768 THEN 65536 ELSE 0)

\* currentHEX - ( ( currentHEX >= 0x8000 ) ? 0xFFFF : 0 )
DecodeCurrentMA(currentHEX) ==
  currentHEX - (IF currentHEX >= 32768 THEN 65535 ELSE 0)

\* currentMA / 1000.0
CurrentMeasure(currentMA) == Rat(currentMA, 1000)

\* statusWord = payload[7] * 0x100 + payload[6]  (uint16_t)
DecodeStatusWord(p) == ToU16(p[8] * 256 + p[7])

\* payload[5] * 0x100 + payload[4]
DecodeAnalog(p) == p[6] * 256 + p[5]

\* the four bytes written for an int setpoint x:
\* x & 0xFF, ( x & 0xFF00 ) / 0x100, ( x & 0xFF0000 ) / 0x10000 and
\* ( x & 0xFF000000 ) / 0x1000000, each cast to uint8_t
SetpointBytes(x) ==
  CHOOSE bytes \in {<<ToU8(AndNat(u.lo, 255)),
                      ToU8(AndNat(u.lo, 65280) \div 256),
                      ToU8(AndNat(u.hi, 255)),
                      ToU8(AndNat(u.hi, 65280) \div 256)>> : u \in {U32(x)}} : TRUE

\* the two bytes written for a 16-bit word (int16_t or uint16_t, promoted to
\* int): w & 0xFF and ( w & 0xFF00 ) / 0x100
WordBytes(w) ==
  CHOOSE bytes \in {<<ToU8(AndNat(u.lo, 255)), ToU8(AndNat(u.lo, 65280) \div 256)>> :
                      u \in {U32(w)}} : TRUE

\* (int16_t) of a double whose truncation is t (limbs). Out of the int16_t
\* range the conversion is undefined: builds truncate a wider conversion,
\* saturate, or deliver the processor's "indefinite" integer.
InInt16(t) == (t.hi = 0 /\ t.lo < HalfW16) \/ (t.hi = -1 /\ t.lo >= HalfW16)

Sat32(t) ==
  IF t.hi >= HalfW16 THEN Big(HalfW16 - 1, W16 - 1)
  ELSE IF t.hi < -HalfW16 THEN Big(-HalfW16, 0)
  ELSE t

CastInt16(t) ==
  IF InInt16(t) THEN {IntOfBig(t)}
  ELSE {ToI16(t.lo), ToI16(Sat32(t).lo),
        IF t.hi < 0 THEN -HalfW16 ELSE HalfW16 - 1, 0}

\* currentSetpointMA = value * 1000.0
CurrentSetpointMA(value) == Times1000(value)

\* (int16_t) currentSetpointMA + ( ( currentSetpointMA < 0.0 ) ? 0xFFFF : 0 ),
\* stored in an int16_t
CurrentSetpointHEX(value) ==
  LET ma == CurrentSetpointMA(value)
  IN {ToI16(c + (IF IsNegative(ma) THEN 65535 ELSE 0)) : c \in CastInt16(TruncBig(ma))}

\* int16_t digitalOutput = (int16_t) value
DigitalOutput(value) == CastInt16(TruncBig(value))

\* outbound PDO01: position setpoint, current setpoint, control word
EncodePDO01(value, currentSetpointHEX, controlWord) ==
  SetpointBytes(TruncToInt(value)) \o WordBytes(currentSetpointHEX)
    \o WordBytes(controlWord)

\* outbound PDO02: velocity setpoint, digital output, two zero bytes
EncodePDO02(value, digitalOutput) ==
  SetpointBytes(TruncToInt(value)) \o WordBytes(digitalOutput) \o <<0, 0>>

\* ------------------------------------------------------------------ Task
\* void EnableOutput( SignalIOTask task, bool enable )
\* mutant: the first step leaves the word as it is
EnableOutputStep1_Direct(controlWord) == controlWord

EnableOutputStep1(controlWord) ==
  ClearFlag(SetFlag(controlWord, SWITCH_ON), ENABLE_OPERATION)

\* mutant: the second step enables whatever was asked
EnableOutputStep2_AlwaysEnables(controlWord, enable) ==
  SetFlag(controlWord, ENABLE_OPERATION)

EnableOutputStep2(controlWord, enable) ==
  IF enable THEN SetFlag(controlWord, ENABLE_OPERATION)
  ELSE ClearFlag(controlWord, SWITCH_ON)

\* mutant: the second write repeats the intermediate word, the Task keeps
\* the final one
EnableOutput_StaleWord(task, enable) ==
  LET cw1 == EnableOutputStep1(task.controlWord)
      cw2 == EnableOutputStep2(cw1, enable)
  IN [task |-> [task EXCEPT !.controlWord = cw2],
      trace |-> <<EvSdo(task.writeFramesList[SDO + 1], CONTROL_WORD_INDEX, 0, cw1),
                  EvDelay(SETTLE_DELAY_MS),
                  EvSdo(task.writeFramesList[SDO + 1], CONTROL_WORD_INDEX, 0, cw1)>>]

EnableOutput(task, enable) ==
  LET cw1 == EnableOutputStep1(task.controlWord)
      cw2 == EnableOutputStep2(cw1, enable)
  IN [task |-> [task EXCEPT !.controlWord = cw2],
      trace |-> <<EvSdo(task.writeFramesList[SDO + 1], CONTROL_WORD_INDEX, 0, cw1),
                  EvDelay(SETTLE_DELAY_MS),
                  EvSdo(task.writeFramesList[SDO + 1], CONTROL_WORD_INDEX, 0, cw2)>>]

\* mutant: the loop stops short of the last frame, the outbound SDO frame
UnloadOrder_SkipsLast(task) ==
  <<task.readFramesList[1], task.writeFramesList[1],
    task.readFramesList[2], task.writeFramesList[2],
    task.readFramesList[3]>>

\* the frames UnloadTaskData ends, in the order of its loop
UnloadOrder(task) ==
  <<task.readFramesList[1], task.writeFramesList[1],
    task.readFramesList[2], task.writeFramesList[2],
    task.readFramesList[3], task.writeFramesList[3]>>

RECURSIVE EndFrames(_, _, _)
EndFrames(fr, hs, i) ==
  IF i > Len(hs) THEN fr ELSE EndFrames(CANNetwork_EndFrame(fr, hs[i]), hs, i + 1)

\* void UnloadTaskData( SignalIOTask task ), task not NULL
UnloadTaskData(task, fr) ==
  LET hs == UnloadOrder(task)
  IN [frames |-> EndFrames(fr, hs, 1),
      trace |-> [i \in 1..Len(hs) |-> EvEnd(hs[i])]]

\* mutant: the initial word has switch-on in the place of quick-stop
InitialControlWord_SwitchedOn == SetFlag(ENABLE_VOLTAGE, SWITCH_ON)

\* newTask->controlWord = ENABLE_VOLTAGE | QUICK_STOP
InitialControlWord == SetFlag(ENABLE_VOLTAGE, QUICK_STOP)

\* the loop of LoadTaskData: allocation k (0..5) is the inbound (k even) or
\* outbound (k odd) frame of kind k / 2; refused is the set of allocations the
\* transport refuses
\* one pass of the loop body for one direction: r is what
\* CANNetwork_InitFrame returned
InitFrameStep(acc, type, dir, nodeID, r) ==
  [frames |-> r.frames,
   rd |-> IF dir = FRAME_IN THEN Append(acc.rd, r.h) ELSE acc.rd,
   wr |-> IF dir = FRAME_OUT THEN Append(acc.wr, r.h) ELSE acc.wr,
   trace |-> Append(acc.trace, EvInit(type, dir, nodeID, r.h)),
   loadError |-> acc.loadError \/ r.h = 0]

RECURSIVE InitFrames(_, _, _, _)
InitFrames(k, nodeID, refused, acc) ==
  IF k >= 2 * CAN_FRAME_TYPES_NUMBER THEN acc
  ELSE LET type == k \div 2
           dir == IF k % 2 = 0 THEN FRAME_IN ELSE FRAME_OUT
       IN InitFrames(k + 1, nodeID, refused,
            InitFrameStep(acc, type, dir, nodeID,
              CANNetwork_InitFrame(acc.frames, type, dir, nodeID, k \in refused)))

\* SignalIOTask LoadTaskData( const char* taskConfig ): task is <<>> for NULL
LoadTaskData(taskConfig, fr, refused) ==
  LET nodeID == strtoul(taskConfig)
      a == InitFrames(0, nodeID, refused,
             [frames |-> fr, rd |-> <<>>, wr |-> <<>>, trace |-> <<>>,
              loadError |-> FALSE])
      newTask == [readFramesList |-> a.rd, writeFramesList |-> a.wr,
                  statusWord |-> 0, controlWord |-> 0,
                  measuresList |-> ZeroMeasures,
                  isReading |-> FALSE, isOutputChannelUsed |-> FALSE,
                  readPayload |-> ZeroPayload, writePayload |-> ZeroPayload]
  IN IF a.loadError
     THEN LET u == UnloadTaskData(newTask, a.frames)
          IN [task |-> <<>>, frames |-> u.frames, trace |-> a.trace \o u.trace]
     ELSE LET cw == InitialControlWord
          IN [task |-> <<[newTask EXCEPT !.controlWord = cw]>>,
              frames |-> a.frames,
              trace |-> Append(a.trace,
                         EvSdo(a.wr[SDO + 1], CONTROL_WORD_INDEX, 0, cw))]

\* ---------------------------------------------------------------- inputs
\* configuration texts: "5", "0xAa" and "0xBB"; the last two are different
\* nodes (170 and 187) with the same hash
Cfg5 == <<53>>
CfgAa == <<48, 120, 65, 97>>
CfgBB == <<48, 120, 66, 66>>
Configs == {Cfg5, CfgAa, CfgBB}

\* int taskKey = (int) kh_str_hash_func( taskConfig )
TaskKey(taskConfig) == ToI32(kh_str_hash_func(taskConfig))

\* the handles callers pass: a handle is unknown while no Task is registered
\* under it
Handles == {TaskKey(c) : c \in Configs}

\* the handles callers pass to Write
WriteHandles == {TaskKey(Cfg5)}

\* channel indices passed by callers: every valid channel and the invalid
\* ones up to the bound
MaxInputChannel == 4
MaxOutputChannel == 3
InputChannels == 0..MaxInputChannel
OutputChannels == 0..MaxOutputChannel

\* the allocations the transport refuses during one LoadTaskData
AllAllocations == 0..(2 * CAN_FRAME_TYPES_NUMBER - 1)
RefusedSets == {{}, {0}, {3}, AllAllocations}

\* payloads a drive delivers in inbound PDO01 and PDO02
DrivePDO01 ==
  {<<1, 2, 3, 4, 255, 127, 8, 0>>,
   <<16, 39, 0, 0, 0, 128, 247, 255>>}
DrivePDO02 ==
  {<<5, 6, 7, 8, 52, 18, 0, 0>>}

\* values passed to Write
WriteValues == {Dbl(10)}

\* what a load or store through a NULL pointer that does not trap delivers
GarbageWords == {0, 65535}

\* ----------------------------------------------------------------- state
VARIABLES
  tasksList,  \* the registry: isNull (tasksList == NULL) and map: key -> Task pointer
  frames,     \* the transport's live frame bindings: id -> binding
  loopback,   \* whether the bus is a loopback (outbound frames come back inbound)
  faulted,    \* the process was ended by a fault
  last,       \* the most recent API call: arguments and result
  trace,      \* the transport and timing calls the most recent API call made
  hist        \* per registered key, what the calls made since the Task was
              \* created say: held (an Acquire succeeded and no in-range Release
              \* followed), fault (fault bit of the PDO01 payload of the last
              \* Read that decoded), written (the value of the last Write),
              \* sent (the value of the last service-data write to the
              \* control-word object on the Task's outbound SDO frame)

vars == <<tasksList, frames, loopback, faulted, last, trace, hist>>

NoCall ==
  [op |-> "none", cfg |-> <<>>, taskID |-> 0, channel |-> 0, value |-> Dbl(0),
   ret |-> 0, out |-> <<>>, inbound |-> <<>>, status |-> 0, found |-> FALSE,
   returned |-> TRUE]

Call(op, taskID, channel, ret) ==
  [NoCall EXCEPT !.op = op, !.taskID = taskID, !.channel = channel, !.ret = ret]

\* the record of a call whose kh_get found the key
Found(call) == [call EXCEPT !.found = TRUE]

Init ==
  /\ tasksList = [isNull |-> TRUE, map |-> EmptyMap]
  /\ frames = [k \in {} |-> <<>>]
  /\ loopback = FALSE
  /\ faulted = FALSE
  /\ last = NoCall
  /\ trace = <<>>
  /\ hist = [k \in {} |-> <<>>]

\* the history of a Task just created
NewHist == [held |-> FALSE, fault |-> FALSE, written |-> <<>>, sent |-> <<>>]

\* the control words the calls tr wrote to the control-word object through
\* the frame sdo, in order
IsControlWordWrite(ev, sdo) ==
  /\ ev[1] = "WriteSingleValue"
  /\ ev[2] = sdo
  /\ ev[3] = CONTROL_WORD_INDEX
  /\ ev[4] = 0

ControlWordsSent(tr, sdo) ==
  LET writes == SelectSeq(tr, LAMBDA ev : IsControlWordWrite(ev, sdo))
  IN [i \in 1..Len(writes) |-> writes[i][5]]

\* the last control word sent once the calls tr were made, prev before them
LastSent(prev, tr, sdo) ==
  LET sent == ControlWordsSent(tr, sdo)
  IN IF sent = <<>> THEN prev ELSE <<sent[Len(sent)]>>

\* kh_get( TaskInt, tasksList, taskID ) != kh_end( tasksList ), tasksList not NULL
Known(taskID) == taskID \in DOMAIN tasksList.map

\* kh_get and kh_end on tasksList == NULL read through a NULL pointer
\* (undefined): the call faults, or the read delivers no bucket and the key
\* is reported missing
NullTableCall(call) ==
  /\ tasksList.isNull
  /\ \E outcome \in {"fault", "miss"} :
       /\ faulted' = (outcome = "fault")
       /\ last' = [call EXCEPT !.returned = (outcome = "miss")]
  /\ trace' = <<>>
  /\ UNCHANGED <<tasksList, frames, loopback, hist>>

\* the early return of a handler whose key is not in the table
MissingCall(call) ==
  /\ ~tasksList.isNull
  /\ ~Known(call.taskID)
  /\ last' = call
  /\ trace' = <<>>
  /\ UNCHANGED <<tasksList, frames, loopback, faulted, hist>>

\* if( kh_size( tasksList ) == 0 ) { kh_destroy; tasksList = NULL; }
DestroyIfEmpty(map) == [isNull |-> DOMAIN map = {}, map |-> map]

\* -------------------------------------------------------------- registry
\* mutant: the Task is loaded whatever kh_put reports
MustLoad_Always(insertionStatus) == insertionStatus >= 0

\* if( insertionStatus > 0 )
MustLoad(insertionStatus) == insertionStatus > 0

\* EndDevice( taskKey ) as InitDevice calls it after LoadTaskData returned
\* NULL: the entry is found, and task->isReading = false and EnableOutput
\* read and write through the NULL task (undefined). A build whose accesses
\* do not trap goes on with words of garbage g: EnableOutput writes them
\* through a NULL frame, UnloadTaskData( NULL ) returns, the key is deleted.
EndDeviceOfNullTask(map, taskKey, g) ==
  LET ghost == [controlWord |-> g, writeFramesList |-> <<0, 0, 0>>]
  IN [tasksList |-> DestroyIfEmpty(kh_del(map, taskKey)),
      trace |-> EnableOutput(ghost, FALSE).trace]

\* int InitDevice( const char* taskConfig )
InitDevice(taskConfig, refused) ==
  /\ ~faulted
  /\ LET taskKey == TaskKey(taskConfig)
         map0 == tasksList.map
         status == kh_put_status(map0, taskKey)
         call == [NoCall EXCEPT !.op = "InitDevice", !.cfg = taskConfig,
                                !.taskID = taskKey, !.status = status]
     IN IF ~MustLoad(status)
        THEN /\ tasksList' = [isNull |-> FALSE, map |-> map0]
             /\ last' = [Found(call) EXCEPT !.ret = taskKey]
             /\ trace' = <<>>
             /\ UNCHANGED <<frames, loopback, faulted, hist>>
        ELSE \E ld \in {LoadTaskData(taskConfig, frames, refused)} :
             LET map1 == (taskKey :> ld.task) @@ map0
             IN IF ld.task # <<>>
                THEN /\ tasksList' = [isNull |-> FALSE, map |-> map1]
                     /\ frames' = ld.frames
                     /\ last' = [call EXCEPT !.ret = taskKey]
                     /\ trace' = ld.trace
                     /\ hist' = (taskKey :> [NewHist EXCEPT !.sent =
                                    LastSent(<<>>, ld.trace,
                                             ld.task[1].writeFramesList[SDO + 1])])
                                   @@ hist
                     /\ UNCHANGED <<loopback, faulted>>
                ELSE \E outcome \in {"fault", "survive"}, g \in GarbageWords :
                       LET e == EndDeviceOfNullTask(map1, taskKey, g)
                       IN /\ faulted' = (outcome = "fault")
                          /\ frames' = ld.frames
                          /\ tasksList' = IF outcome = "fault"
                                          THEN [isNull |-> FALSE, map |-> map1]
                                          ELSE e.tasksList
                          /\ trace' = IF outcome = "fault" THEN ld.trace
                                      ELSE ld.trace \o e.trace
                          /\ last' = [call EXCEPT !.ret = -1,
                                                  !.returned = (outcome = "survive")]
                          /\ UNCHANGED <<loopback, hist>>

\* mutant: the frames are released before the output is disabled
EndDeviceCalls_UnloadFirst(disabling, unloading) == unloading \o disabling

\* the transport calls of EndDevice: those of EnableOutput( task, false ),
\* then those of UnloadTaskData( task )
EndDeviceCalls(disabling, unloading) == disabling \o unloading

\* void EndDevice( int taskID )
EndDevice(taskID) ==
  /\ ~faulted
  /\ LET call == Call("EndDevice", taskID, 0, 0)
     IN \/ NullTableCall(call)
        \/ MissingCall(call)
        \/ /\ ~tasksList.isNull
           /\ Known(taskID)
           /\ \E eo \in {EnableOutput([tasksList.map[taskID][1] EXCEPT
                                          !.isReading = FALSE], FALSE)} :
              \E u \in {UnloadTaskData(eo.task, frames)} :
                 /\ tasksList' = DestroyIfEmpty(kh_del(tasksList.map, taskID))
                 /\ frames' = u.frames
                 /\ trace' = EndDeviceCalls(eo.trace, u.trace)
                 /\ hist' = [k \in DOMAIN hist \ {taskID} |-> hist[k]]
           /\ last' = Found(call)
           /\ UNCHANGED <<loopback, faulted>>

\* size_t GetMaxInputSamplesNumber( int taskID )
GetMaxInputSamplesNumber(taskID) ==
  /\ ~faulted
  /\ LET call == Call("GetMaxInputSamplesNumber", taskID, 0, 0)
     IN \/ NullTableCall(call)
        \/ MissingCall(call)
        \/ /\ ~tasksList.isNull
           /\ Known(taskID)
           /\ last' = [Found(call) EXCEPT !.ret = 1]
           /\ trace' = <<>>
           /\ UNCHANGED <<tasksList, frames, loopback, faulted, hist>>

\* if( channel >= INPUT_CHANNELS_NUMBER ) return ...
InputChannelRejected(channel) == channel >= INPUT_CHANNELS_NUMBER

\* if( channel >= OUTPUT_CHANNELS_NUMBER ) return ...
OutputChannelRejected(channel) == channel >= OUTPUT_CHANNELS_NUMBER

\* bool CheckInputChannel( int taskID, unsigned int channel )
CheckInputChannel(taskID, channel) ==
  /\ ~faulted
  /\ LET call == Call("CheckInputChannel", taskID, channel, 0)
     IN \/ NullTableCall(call)
        \/ MissingCall(call)
        \/ /\ ~tasksList.isNull
           /\ Known(taskID)
           /\ last' = [Found(call) EXCEPT
                        !.ret = IF InputChannelRejected(channel) THEN 0 ELSE 1]
           /\ trace' = <<>>
           /\ UNCHANGED <<tasksList, frames, loopback, faulted, hist>>

\* ------------------------------------------------------------- data path
\* the body of Read after the frames were sampled: p1 and p2 are the payloads
\* CANFrame_Read delivered for PDO01 and PDO02, pos and vel the position and
\* velocity values (doubles) the build computed from them
DecodeInto(task, p1, p2, pos, vel) ==
  [task EXCEPT
     !.measuresList = <<pos, vel,
                        CurrentMeasure(DecodeCurrentMA(DecodeCurrentHEX(p1))),
                        Dbl(DecodeAnalog(p2))>>,
     !.statusWord = DecodeStatusWord(p1),
     !.readPayload = p2]

\* what CANNetwork_Sync leaves in an inbound frame: on a loopback bus the
\* payload of the matching outbound frame, otherwise what the drive sent.
\* Every CANFrame_Read of the driver follows a CANNetwork_Sync in the same
\* call, so an inbound payload is drawn where it is sampled.
Inbound(h, fromDrive) ==
  IF loopback THEN {LoopbackData(frames, h)} ELSE fromDrive

\* size_t Read( int taskID, unsigned int channel, double* ref_value )
ReadFrom(taskID, channel, drive1, drive2) ==
  /\ ~faulted
  /\ LET call == Call("Read", taskID, channel, 0)
     IN \/ NullTableCall(call)
        \/ MissingCall(call)
        \/ /\ ~tasksList.isNull
           /\ Known(taskID)
           /\ LET task == tasksList.map[taskID][1]
                  rf1 == task.readFramesList[PDO01 + 1]
                  rf2 == task.readFramesList[PDO02 + 1]
              IN IF InputChannelRejected(channel)
                 THEN /\ last' = Found(call)
                      /\ trace' = <<>>
                      /\ UNCHANGED <<tasksList, hist>>
                 ELSE \E p1 \in Inbound(rf1, drive1), p2 \in Inbound(rf2, drive2) :
                      \E pos \in DecodeCounts(p1), vel \in DecodeCounts(p2) :
                      \E t2 \in {DecodeInto(task, p1, p2, pos, vel)} :
                           /\ tasksList' = [tasksList EXCEPT !.map[taskID] = <<t2>>]
                           /\ last' = [Found(call) EXCEPT !.ret = 1,
                                         !.out = <<t2.measuresList[channel + 1]>>,
                                         !.inbound = <<p1, p2>>]
                           /\ trace' = <<EvSync, EvRead(rf1), EvRead(rf2)>>
                           /\ hist' = [hist EXCEPT ![taskID].fault =
                                         (p1[7] \div 8) % 2 = 1]
           /\ UNCHANGED <<frames, loopback, faulted>>

Read(taskID, channel) == ReadFrom(taskID, channel, DrivePDO01, DrivePDO02)

\* mutant: the voltage-enabled bit (16) is tested instead of the fault bit
HasErrorOf_VoltageBit(task) == IF AndNat(task.statusWord, 16) # 0 THEN 1 ELSE 0

\* return (bool) ( task->statusWord & FAULT )
HasErrorOf(task) == IF AndNat(task.statusWord, FAULT) # 0 THEN 1 ELSE 0

\* bool HasError( int taskID )
HasError(taskID) ==
  /\ ~faulted
  /\ LET call == Call("HasError", taskID, 0, 0)
     IN \/ NullTableCall(call)
        \/ MissingCall(call)
        \/ /\ ~tasksList.isNull
           /\ Known(taskID)
           /\ last' = [Found(call) EXCEPT !.ret = HasErrorOf(tasksList.map[taskID][1])]
           /\ trace' = <<>>
           /\ UNCHANGED <<tasksList, frames, loopback, faulted, hist>>

\* task->controlWord |= FAULT_RESET
ResetStep1(controlWord) == SetFlag(controlWord, FAULT_RESET)

\* mutant: the fault-reset bit is left set
ResetStep2_KeepsBit(controlWord) == controlWord

\* task->controlWord &= (~FAULT_RESET)
ResetStep2(controlWord) == ClearFlag(controlWord, FAULT_RESET)

\* void Reset( int taskID )
Reset(taskID) ==
  /\ ~faulted
  /\ LET call == Call("Reset", taskID, 0, 0)
     IN \/ NullTableCall(call)
        \/ MissingCall(call)
        \/ /\ ~tasksList.isNull
           /\ Known(taskID)
           /\ LET task == tasksList.map[taskID][1]
                  sdo == task.writeFramesList[SDO + 1]
                  cw1 == ResetStep1(task.controlWord)
                  cw2 == ResetStep2(cw1)
              IN /\ tasksList' = [tasksList EXCEPT
                                    !.map[taskID] = <<[task EXCEPT !.controlWord = cw2]>>]
                 /\ trace' = <<EvSdo(sdo, CONTROL_WORD_INDEX, 0, cw1),
                               EvDelay(SETTLE_DELAY_MS),
                               EvSdo(sdo, CONTROL_WORD_INDEX, 0, cw2)>>
                 /\ hist' = [hist EXCEPT ![taskID].sent = LastSent(@, trace', sdo)]
           /\ last' = Found(call)
           /\ UNCHANGED <<frames, loopback, faulted>>

\* mutant: the bus is synchronized before the frames are written
WriteCalls_SyncFirst(wf1, pl1, wf2, pl2) ==
  <<EvSync, EvWrite(wf1, pl1), EvWrite(wf2, pl2)>>

\* the transport calls of Write, in the order of its statements
WriteCalls(wf1, pl1, wf2, pl2) == <<EvWrite(wf1, pl1), EvWrite(wf2, pl2), EvSync>>

\* bool Write( int taskID, unsigned int channel, double value )
WriteFrom(taskID, channel, values) ==
  /\ ~faulted
  /\ \E value \in values :
     LET call == [Call("Write", taskID, channel, 0) EXCEPT !.value = value]
     IN \/ NullTableCall(call)
        \/ MissingCall(call)
        \/ /\ ~tasksList.isNull
           /\ Known(taskID)
           /\ \E cur \in CurrentSetpointHEX(value), dig \in DigitalOutput(value) :
              \E pl1 \in {EncodePDO01(value, cur, tasksList.map[taskID][1].controlWord)},
                 pl2 \in {EncodePDO02(value, dig)} :
                LET task == tasksList.map[taskID][1]
                    wf1 == task.writeFramesList[PDO01 + 1]
                    wf2 == task.writeFramesList[PDO02 + 1]
                IN /\ tasksList' = [tasksList EXCEPT
                                      !.map[taskID] = <<[task EXCEPT !.writePayload = pl2]>>]
                   /\ frames' = CANFrame_Write(CANFrame_Write(frames, wf1, pl1), wf2, pl2)
                   /\ trace' = WriteCalls(wf1, pl1, wf2, pl2)
           /\ last' = [Found(call) EXCEPT !.ret = 1]
           /\ hist' = [hist EXCEPT ![taskID].written = <<value>>]
           /\ UNCHANGED <<loopback, faulted>>

Write(taskID, channel) == WriteFrom(taskID, channel, WriteValues)

\* mutant: only the channel range is tested
AcquireRejected_RangeOnly(task, channel) == OutputChannelRejected(channel)

\* if( channel >= OUTPUT_CHANNELS_NUMBER ) return false;
\* if( task->isOutputChannelUsed ) return false;
AcquireRejected(task, channel) ==
  OutputChannelRejected(channel) \/ task.isOutputChannelUsed

\* bool AcquireOutputChannel( int taskID, unsigned int channel )
AcquireOutputChannel(taskID, channel) ==
  /\ ~faulted
  /\ LET call == Call("AcquireOutputChannel", taskID, channel, 0)
     IN \/ NullTableCall(call)
        \/ MissingCall(call)
        \/ /\ ~tasksList.isNull
           /\ Known(taskID)
           /\ LET task == tasksList.map[taskID][1]
                  sdo == task.writeFramesList[SDO + 1]
              IN IF AcquireRejected(task, channel)
                 THEN /\ last' = Found(call)
                      /\ trace' = <<>>
                      /\ UNCHANGED <<tasksList, hist>>
                 ELSE LET eo == EnableOutput(task, TRUE)
                      IN /\ tasksList' = [tasksList EXCEPT !.map[taskID] =
                                <<[eo.task EXCEPT !.isOutputChannelUsed = TRUE]>>]
                         /\ trace' = <<EvSdo(sdo, OPERATION_MODE_INDEX, 0,
                                             OPERATION_MODES[channel + 1])>> \o eo.trace
                         /\ last' = [Found(call) EXCEPT !.ret = 1]
                         /\ hist' = [hist EXCEPT ![taskID].held = TRUE,
                                       ![taskID].sent = LastSent(@, trace', sdo)]
           /\ UNCHANGED <<frames, loopback, faulted>>

\* mutant: the release leaves the usage flag as it was
ReleasedFlag_Kept(task) == task

\* task->isOutputChannelUsed = false, the last statement of ReleaseOutputChannel
ReleasedFlag(task) == [task EXCEPT !.isOutputChannelUsed = FALSE]

\* void ReleaseOutputChannel( int taskID, unsigned int channel )
ReleaseOutputChannel(taskID, channel) ==
  /\ ~faulted
  /\ LET call == Call("ReleaseOutputChannel", taskID, channel, 0)
     IN \/ NullTableCall(call)
        \/ MissingCall(call)
        \/ /\ ~tasksList.isNull
           /\ Known(taskID)
           /\ LET task == tasksList.map[taskID][1]
                  sdo == task.writeFramesList[SDO + 1]
              IN IF OutputChannelRejected(channel)
                 THEN /\ trace' = <<>>
                      /\ UNCHANGED <<tasksList, hist>>
                 ELSE LET eo == EnableOutput(task, FALSE)
                      IN /\ tasksList' = [tasksList EXCEPT !.map[taskID] =
                                <<ReleasedFlag(eo.task)>>]
                         /\ trace' = <<EvSdo(sdo, OPERATION_MODE_INDEX, 0, 0)>> \o eo.trace
                         /\ hist' = [hist EXCEPT ![taskID].held = FALSE,
                                       ![taskID].sent = LastSent(@, trace', sdo)]
           /\ last' = Found(call)
           /\ UNCHANGED <<frames, loopback, faulted>>

\* ------------------------------------------------------- specifications
Next ==
  \/ \E c \in Configs, r \in RefusedSets : InitDevice(c, r)
  \/ \E h \in Handles : EndDevice(h)
  \/ \E h \in Handles : GetMaxInputSamplesNumber(h)
  \/ \E h \in Handles, ch \in InputChannels : CheckInputChannel(h, ch)
  \/ \E h \in Handles, ch \in InputChannels : Read(h, ch)
  \/ \E h \in Handles : HasError(h)
  \/ \E h \in Handles : Reset(h)
  \/ \E h \in WriteHandles, ch \in OutputChannels : Write(h, ch)
  \/ \E h \in Handles, ch \in OutputChannels : AcquireOutputChannel(h, ch)
  \/ \E h \in Handles, ch \in OutputChannels : ReleaseOutputChannel(h, ch)

Spec == Init /\ [][Next]_vars

\* ---------------------------------------------------- codec specifications
\* The codec is exercised on one Task, registered for "5" with every frame
\* allocated: the state InitDevice( "5" ) leaves behind.
CodecHandle == TaskKey(Cfg5)

InitRegistered ==
  LET ld == LoadTaskData(Cfg5, [k \in {} |-> <<>>], {})
  IN /\ tasksList = [isNull |-> FALSE, map |-> (CodecHandle :> ld.task)]
     /\ frames = ld.frames
     /\ faulted = FALSE
     /\ last = [NoCall EXCEPT !.op = "InitDevice", !.cfg = Cfg5,
                              !.taskID = CodecHandle, !.status = 1,
                              !.ret = CodecHandle]
     /\ trace = ld.trace
     /\ hist = (CodecHandle :> [NewHist EXCEPT !.sent =
                  LastSent(<<>>, ld.trace, ld.task[1].writeFramesList[SDO + 1])])

\* bytes 4 and 5 of the inbound PDO01 payloads the decoder is given
CurrentBytes == {0, 1, 16, 39, 100, 127, 128, 129, 200, 232, 254, 255}
DecodePDO01 == {<<1, 2, 3, 4, c0, c1, 8, 0>> : c0, c1 \in CurrentBytes}

DecodeRead(channel) == ReadFrom(CodecHandle, channel, DecodePDO01, DrivePDO02)

InitDecode == InitRegistered /\ loopback = FALSE
NextDecode == \E ch \in InputChannels : DecodeRead(ch)
SpecDecode == InitDecode /\ [][NextDecode]_vars

\* the values the encoder is given: the integers below, and the eighths
\* around zero and around the ends of the 16-bit milliamp range
MinInt == -2147483647 - 1
EncodeIntegers ==
  {0, 1, -1, 2, -2, 10, -10, 32, -32, 33, -33, 255, -256, 70000,
   2147483647, MinInt}
EncodeEighths == {1, -1, 4, -4, 12, -12, 262, -262, 263, -263}
EncodeValues == {Dbl(i) : i \in EncodeIntegers} \cup {Rat(e, 8) : e \in EncodeEighths}

EncodeWrite == WriteFrom(CodecHandle, OUTPUT_POSITION, EncodeValues)
LoopbackRead(channel) == ReadFrom(CodecHandle, channel, {}, {})

InitEncode == InitRegistered /\ loopback = TRUE
NextEncode ==
  \/ EncodeWrite
  \/ \E ch \in {INPUT_POSITION, INPUT_VELOCITY} : LoopbackRead(ch)
SpecEncode == InitEncode /\ [][NextEncode]_vars

\* ---------------------------------------------------------------- claims
\* the keys under which a Task is registered, and the Task of a key
RegisteredKeys == {k \in DOMAIN tasksList.map : tasksList.map[k] # <<>>}
HasTask(k) == k \in RegisteredKeys
TaskOf(k) == tasksList.map[k][1]

\* the handles of the frames a Task holds
TaskFrames(task) ==
  {task.readFramesList[i] : i \in 1..Len(task.readFramesList)}
    \cup {task.writeFramesList[i] : i \in 1..Len(task.writeFramesList)}

\* Every step of a specification is one API call, and last' is its record:
\* a step with last'.op = "InitDevice" is a call of InitDevice( last'.cfg ),
\* the unprimed variables being the state the call was made in.

\* positions of the trace where the named transport call was made
CallsOf(name) == {i \in 1..Len(trace) : trace[i][1] = name}

\* the last call was a registration whose LoadTaskData was refused a frame
ConstructionFailed ==
  /\ last.op = "InitDevice"
  /\ \E i \in CallsOf("InitFrame") : trace[i][5] = 0

\* C1: Register is idempotent by configuration hash. Whenever a Task exists
\* for hash(config), for the same text or another text with the same hash,
\* InitDevice returns the existing handle and changes nothing: the registry
\* and every field of the existing Task are as before, no frame binding is
\* allocated or released, and no transport call (so no service-data write) is
\* made.
C1_RegisterIdempotent ==
  [][(last'.op = "InitDevice" /\ HasTask(TaskKey(last'.cfg)))
       => /\ last'.returned
          /\ last'.ret = TaskKey(last'.cfg)
          /\ trace' = <<>>
          /\ tasksList' = tasksList
          /\ frames' = frames]_vars

\* C1 witness: "0xBB" was registered while the Task of "0xAa" (node 170, same
\* hash) existed, and the call returned that Task's handle.
C1_Witness ==
  /\ last.op = "InitDevice"
  /\ last.cfg = CfgBB
  /\ last.found
  /\ last.ret = TaskKey(CfgAa)
  /\ HasTask(last.ret)
  /\ frames[TaskOf(last.ret).readFramesList[SDO + 1]].node = strtoul(CfgAa)

\* C2: when Task construction fails during Register, the entry is rolled
\* back and the call reports failure: InitDevice returns -1 without
\* faulting, and the registry holds no entry for the key afterwards.
C2_FailedRegisterRollsBack ==
  ConstructionFailed
    => /\ last.returned
       /\ last.ret = -1
       /\ last.taskID \notin DOMAIN tasksList.map

\* C3: in every registry state, before the first registration and after the
\* registry was torn down included, an operation called with a handle that has
\* no Task returns its failure or empty result, makes no transport call and
\* does not fault.
HandleOps ==
  {"EndDevice", "GetMaxInputSamplesNumber", "Read", "Write", "HasError",
   "Reset", "CheckInputChannel", "AcquireOutputChannel", "ReleaseOutputChannel"}

C3_AbsentHandleNoOp ==
  (last.op \in HandleOps /\ ~last.found)
    => /\ last.returned
       /\ last.ret = 0
       /\ last.out = <<>>
       /\ trace = <<>>

\* C4: no frame binding leaks. The live bindings are exactly the 6 of each
\* registered Task: inbound and outbound for SDO, PDO01 and PDO02 of one
\* node. EndDevice of a known handle ends its 6 frames and removes the handle,
\* EndDevice of an unknown handle ends none, and a failed construction ends
\* every frame it was given.
TaskHoldsItsFrames(task) ==
  \A t \in {SDO, PDO01, PDO02} :
    LET i == task.readFramesList[t + 1]
        o == task.writeFramesList[t + 1]
    IN /\ i \in DOMAIN frames
       /\ o \in DOMAIN frames
       /\ frames[i].type = t /\ frames[i].dir = FRAME_IN
       /\ frames[o].type = t /\ frames[o].dir = FRAME_OUT
       /\ frames[i].node = frames[o].node
       /\ frames[i].node = frames[task.readFramesList[1]].node

C4_NoFrameLeak ==
  /\ DOMAIN frames = UNION {TaskFrames(TaskOf(k)) : k \in RegisteredKeys}
  /\ Cardinality(DOMAIN frames) = 6 * Cardinality(RegisteredKeys)
  /\ \A k \in RegisteredKeys : TaskHoldsItsFrames(TaskOf(k))
  /\ (last.op = "EndDevice" /\ last.found)
       => /\ ~HasTask(last.taskID)
          /\ Cardinality(CallsOf("EndFrame")) = 6
          /\ \A i \in CallsOf("EndFrame") : trace[i][2] \notin DOMAIN frames
  /\ (last.op = "EndDevice" /\ ~last.found) => CallsOf("EndFrame") = {}
  /\ ConstructionFailed
       => \A i \in CallsOf("InitFrame") :
            trace[i][5] # 0
              => \E j \in CallsOf("EndFrame") : j > i /\ trace[j][2] = trace[i][5]

\* C4 witness: a registration failed after some of its frames were allocated,
\* while another Task stays registered with its 6 frames.
C4_Witness ==
  /\ ConstructionFailed
  /\ \E i \in CallsOf("InitFrame") : trace[i][5] # 0
  /\ Cardinality(RegisteredKeys) = 1
  /\ Cardinality(DOMAIN frames) = 6

\* C5: acquisition is exclusive per Task. On a registered handle
\* AcquireOutputChannel succeeds exactly when the channel is in range and no
\* Acquire succeeded on the Task since it was created or since the last
\* ReleaseOutputChannel with an in-range channel.
C5_AcquireExclusive ==
  [][(last'.op = "AcquireOutputChannel" /\ HasTask(last'.taskID))
       => ((last'.ret = 1)
             <=> (/\ last'.channel < OUTPUT_CHANNELS_NUMBER
                  /\ ~hist[last'.taskID].held))]_vars

\* C5 witness: an Acquire with an in-range channel failed because an earlier
\* Acquire on the Task was not released.
C5_Witness ==
  /\ last.op = "AcquireOutputChannel"
  /\ last.found
  /\ last.channel < OUTPUT_CHANNELS_NUMBER
  /\ last.ret = 0
  /\ hist[last.taskID].held

\* C6: on a registered handle, read, write, acquireOutput and releaseOutput
\* reject an out-of-range channel before any transport interaction: the call
\* reports failure and makes no transport call.
C6_InvalidChannelRejected ==
  (/\ last.found
   /\ \/ last.op = "Read" /\ last.channel >= INPUT_CHANNELS_NUMBER
      \/ /\ last.op \in {"Write", "AcquireOutputChannel", "ReleaseOutputChannel"}
         /\ last.channel >= OUTPUT_CHANNELS_NUMBER)
    => /\ last.ret = 0
       /\ last.out = <<>>
       /\ trace = <<>>

\* C7: HasError of a registered handle is the fault bit (8) of the status
\* word in bytes 6-7 of the PDO01 payload sampled by the most recent Read that
\* decoded on the handle's Task, whichever channel was asked for; it is false
\* before any such Read, and no other call changes it.
C7_HasErrorIsLastFaultBit ==
  /\ \A k \in RegisteredKeys : (HasErrorOf(TaskOf(k)) = 1) <=> hist[k].fault
  /\ (last.op = "HasError" /\ last.found)
       => ((last.ret = 1) <=> hist[last.taskID].fault)

\* C7 witness: HasError reported a fault on one Task while another Task, read
\* as well, has none.
C7_Witness ==
  /\ last.op = "HasError"
  /\ last.found
  /\ last.ret = 1
  /\ \E k \in RegisteredKeys :
       /\ k # last.taskID
       /\ ~hist[k].fault
       /\ TaskOf(k).statusWord # 0

\* the little-endian bytes of a 16-bit and of a 32-bit two's-complement
\* integer, the latter given in limbs
LittleEndian16(x) == <<(x % W16) % 256, (x % W16) \div 256>>
LittleEndian32(t) ==
  <<t.lo % 256, t.lo \div 256, (t.hi % W16) % 256, (t.hi % W16) \div 256>>

\* C8: on a loopback transport, Write( h, v ) followed by Read( h, position )
\* or Read( h, velocity ) returns exactly v, for v in
\* { 0, 1, -1, 2147483647, -2147483648 }.
RoundTripValues == {Dbl(0), Dbl(1), Dbl(-1), Dbl(2147483647), Dbl(MinInt)}

C8_LoopbackRoundTrip ==
  (/\ loopback
   /\ last.op = "Read"
   /\ last.ret = 1
   /\ last.channel \in {INPUT_POSITION, INPUT_VELOCITY}
   /\ hist[last.taskID].written # <<>>
   /\ hist[last.taskID].written[1] \in RoundTripValues)
    => last.out = hist[last.taskID].written

\* C9: Read decodes the current from the raw value r, little-endian in bytes
\* 4-5 of the inbound PDO01 payload, as r milliamps when r < 0x8000 and as
\* r - 65535 milliamps when r >= 0x8000; the stored current measure is that
\* number divided by 1000.
C9_CurrentDecode ==
  (last.op = "Read" /\ last.ret = 1)
    => LET p1 == last.inbound[1]
           r == p1[5] + 256 * p1[6]
           milliamps == IF r < 32768 THEN r ELSE r - 65535
           measure == TaskOf(last.taskID).measuresList[INPUT_CURRENT + 1]
       IN /\ Times1000(measure) = Dbl(milliamps)
          /\ last.channel = INPUT_CURRENT => last.out = <<measure>>

\* C9 witness: a Read of the current channel decoded r = 0xFFFF, which the
\* decoding maps to 0 and not to -1 milliamp, and an earlier or later one is
\* negative.
C9_Witness ==
  /\ last.op = "Read"
  /\ last.ret = 1
  /\ last.channel = INPUT_CURRENT
  /\ last.inbound[1][5] = 255
  /\ last.inbound[1][6] = 255
  /\ last.out = <<Dbl(0)>>

\* C10: for a target value v whose scaling m = v * 1000 is an integer in
\* [-32768, 32767], Write puts the little-endian two's-complement encoding
\* of m in bytes 4-5 of outbound PDO01, the little-endian 32-bit encoding of
\* v truncated in bytes 0-3 of outbound PDO01 and PDO02, and zero in bytes
\* 6-7 of outbound PDO02.
C10_WriteEncoding ==
  (/\ last.op = "Write"
   /\ last.ret = 1
   /\ Times1000(last.value).fn = 0
   /\ InInt16(TruncBig(Times1000(last.value))))
    => LET m == IntOfBig(TruncBig(Times1000(last.value)))
           setpoint == LittleEndian32(TruncBig(last.value))
           pdo1 == trace[1][3]
           pdo2 == trace[2][3]
       IN /\ SubSeq(pdo1, 5, 6) = LittleEndian16(m)
          /\ SubSeq(pdo1, 1, 4) = setpoint
          /\ SubSeq(pdo2, 1, 4) = setpoint
          /\ SubSeq(pdo2, 7, 8) = <<0, 0>>

\* whether the bit flag (a power of two) is set in word, and word without it
HasFlag(word, flag) == (word \div flag) % 2 = 1
WithoutFlag(word, flag) == IF HasFlag(word, flag) THEN word - flag ELSE word

\* the Task of handle h after the step
TaskAfter(h) == tasksList'.map[h][1]

\* the step leaves statusWord, measures and the usage flag of Task h alone
KeepsReadings(h) ==
  /\ TaskAfter(h).statusWord = TaskOf(h).statusWord
  /\ TaskAfter(h).measuresList = TaskOf(h).measuresList
  /\ TaskAfter(h).isOutputChannelUsed = TaskOf(h).isOutputChannelUsed

\* a service-data write of value to the control-word object through frame sdo
ControlWordWrite(sdo, value) == <<"WriteSingleValue", sdo, 24640, 0, value>>

\* a service-data write of value to the mode-of-operation object
ModeWrite(sdo, value) == <<"WriteSingleValue", sdo, 24672, 0, value>>

\* the settle delay
SettleDelay == <<"Delay", 200>>

\* C11: Reset on a registered handle makes exactly three calls: a write of
\* the control word with the fault-reset bit set to object 0x6040:0, the
\* settle delay, and a write of the control word with that bit cleared. The
\* other bits are in both writes what they were before the call, and the
\* usage flag, statusWord and measures are unchanged.
C11_ResetTwoWrites ==
  [][(last'.op = "Reset" /\ last'.found)
       => LET h == last'.taskID
              sdo == TaskOf(h).writeFramesList[SDO + 1]
              others == WithoutFlag(TaskOf(h).controlWord, FAULT_RESET)
          IN /\ trace' = <<ControlWordWrite(sdo, others + FAULT_RESET),
                           SettleDelay,
                           ControlWordWrite(sdo, others)>>
             /\ KeepsReadings(h)
             /\ frames' = frames]_vars

\* C11 witness: Reset was called on a Task whose output is enabled and which
\* has decoded a fault; it wrote 15 + 128, then 15.
C11_Witness ==
  /\ last.op = "Reset"
  /\ last.found
  /\ TaskOf(last.taskID).isOutputChannelUsed
  /\ HasErrorOf(TaskOf(last.taskID)) = 1
  /\ Len(trace) = 3
  /\ trace[1][5] = 143
  /\ trace[3][5] = 15

\* C12: the Task's controlWord is the last control word sent for it: for
\* every registered Task it equals the value of the most recent service-data
\* write to 0x6040, and bytes 6-7 of the outbound PDO01 payload of every
\* Write hold that value, little-endian.
C12_ControlWordIsLastSent ==
  /\ \A k \in RegisteredKeys : hist[k].sent = <<TaskOf(k).controlWord>>
  /\ (last.op = "Write" /\ last.found)
       => /\ trace[1][1] = "FrameWrite"
          /\ trace[1][2] = TaskOf(last.taskID).writeFramesList[PDO01 + 1]
          /\ SubSeq(trace[1][3], 7, 8) = LittleEndian16(hist[last.taskID].sent[1])

\* C12 witness: a Write on a Task whose output was acquired embeds 15, the
\* word the acquisition sent last.
C12_Witness ==
  /\ last.op = "Write"
  /\ last.found
  /\ hist[last.taskID].held
  /\ hist[last.taskID].sent = <<15>>
  /\ SubSeq(trace[1][3], 7, 8) = <<15, 0>>

\* C13: AcquireOutputChannel with an in-range channel on a Task whose usage
\* flag is already set returns failure, makes no service-data write and no
\* delay, and leaves controlWord, the usage flag, statusWord and measures
\* unchanged.
C13_BusyAcquireHasNoEffect ==
  [][(/\ last'.op = "AcquireOutputChannel"
      /\ last'.found
      /\ last'.channel < OUTPUT_CHANNELS_NUMBER
      /\ TaskOf(last'.taskID).isOutputChannelUsed)
       => /\ last'.ret = 0
          /\ trace' = <<>>
          /\ TaskAfter(last'.taskID).controlWord = TaskOf(last'.taskID).controlWord
          /\ KeepsReadings(last'.taskID)
          /\ tasksList' = tasksList
          /\ frames' = frames]_vars

\* C13 witness: the current channel was asked for on a Task that holds an
\* output channel and has decoded measures; the call failed without a call
\* to the transport.
C13_Witness ==
  /\ last.op = "AcquireOutputChannel"
  /\ last.found
  /\ last.channel = OUTPUT_CURRENT
  /\ last.ret = 0
  /\ trace = <<>>
  /\ TaskOf(last.taskID).isOutputChannelUsed
  /\ TaskOf(last.taskID).controlWord = 15
  /\ TaskOf(last.taskID).statusWord # 0

\* C14: a successful AcquireOutputChannel( channel ) makes exactly these
\* calls, in order: a write of the channel's code (0xFF position, 0xFE
\* velocity, 0xFD current) to the mode-of-operation object 0x6060:0, a write
\* of the control word with switch-on set and enable-operation clear, the
\* settle delay, and a write of the control word with both set. The usage
\* flag, clear before the call, is set after it.
ModeCode(channel) ==
  IF channel = OUTPUT_POSITION THEN 255
  ELSE IF channel = OUTPUT_VELOCITY THEN 254 ELSE 253

C14_AcquireSequence ==
  [][(last'.op = "AcquireOutputChannel" /\ last'.ret = 1)
       => LET h == last'.taskID
              sdo == TaskOf(h).writeFramesList[SDO + 1]
          IN /\ last'.channel < OUTPUT_CHANNELS_NUMBER
             /\ Len(trace') = 4
             /\ trace'[1] = ModeWrite(sdo, ModeCode(last'.channel))
             /\ \E w \in 0..(W16 - 1) :
                  /\ trace'[2] = ControlWordWrite(sdo, w)
                  /\ HasFlag(w, SWITCH_ON) /\ ~HasFlag(w, ENABLE_OPERATION)
                  /\ WithoutFlag(w, SWITCH_ON)
                       = WithoutFlag(WithoutFlag(TaskOf(h).controlWord, SWITCH_ON),
                                     ENABLE_OPERATION)
                  /\ trace'[4] = ControlWordWrite(sdo, w + ENABLE_OPERATION)
             /\ trace'[3] = SettleDelay
             /\ ~TaskOf(h).isOutputChannelUsed
             /\ TaskAfter(h).isOutputChannelUsed
             /\ TaskAfter(h).controlWord = trace'[4][5]]_vars

\* C14 witness: the current channel was acquired: code 0xFD, then 7, then 15.
C14_Witness ==
  /\ last.op = "AcquireOutputChannel"
  /\ last.ret = 1
  /\ last.channel = OUTPUT_CURRENT
  /\ trace[1][5] = 253
  /\ trace[2][5] = 7
  /\ trace[4][5] = 15

\* C15: ReleaseOutputChannel with an in-range channel on a registered
\* handle, whether or not a channel is acquired, makes exactly these calls:
\* a write of 0 to the mode-of-operation object 0x6060:0, a write of the
\* control word with switch-on set and enable-operation clear, the settle
\* delay, and a write of the control word with both clear; the usage flag is
\* clear afterwards. With an out-of-range channel it makes no call and leaves
\* the usage flag and controlWord unchanged.
C15_ReleaseSequence ==
  [][(last'.op = "ReleaseOutputChannel" /\ last'.found)
       => LET h == last'.taskID
              sdo == TaskOf(h).writeFramesList[SDO + 1]
              base == WithoutFlag(WithoutFlag(TaskOf(h).controlWord, SWITCH_ON),
                                  ENABLE_OPERATION)
          IN IF last'.channel < OUTPUT_CHANNELS_NUMBER
             THEN /\ trace' = <<ModeWrite(sdo, 0),
                                ControlWordWrite(sdo, base + SWITCH_ON),
                                SettleDelay,
                                ControlWordWrite(sdo, base)>>
                  /\ ~TaskAfter(h).isOutputChannelUsed
                  /\ TaskAfter(h).controlWord = base
             ELSE /\ trace' = <<>>
                  /\ tasksList' = tasksList]_vars

\* C15 witness: a Release on a Task that had decoded measures wrote mode 0,
\* then 7, then 6, and the Task is left unused.
C15_Witness ==
  /\ last.op = "ReleaseOutputChannel"
  /\ last.found
  /\ last.channel = OUTPUT_VELOCITY
  /\ Len(trace) = 4
  /\ trace[1][3] = 24672 /\ trace[1][5] = 0
  /\ trace[2][5] = 7
  /\ trace[4][5] = 6
  /\ ~TaskOf(last.taskID).isOutputChannelUsed
  /\ TaskOf(last.taskID).statusWord # 0

\* C16: the commanded state never jumps between disabled and enabled. In the
\* sequence of control words sent for a Task by service-data writes, a word
\* with enable-operation set never directly follows one with switch-on clear,
\* and a word with switch-on clear never directly follows one with
\* enable-operation set; a word that changes these bits to an end state is
\* preceded by the write of the intermediate word (switch-on set,
\* enable-operation clear) and by the settle delay.
HasTaskAfter(h) ==
  /\ h \in DOMAIN tasksList'.map
  /\ tasksList'.map[h] # <<>>

Disabled(w) == ~HasFlag(w, SWITCH_ON)
Enabled(w) == HasFlag(w, ENABLE_OPERATION)
Intermediate(w) == HasFlag(w, SWITCH_ON) /\ ~HasFlag(w, ENABLE_OPERATION)
SameCommand(a, b) ==
  /\ HasFlag(a, SWITCH_ON) = HasFlag(b, SWITCH_ON)
  /\ HasFlag(a, ENABLE_OPERATION) = HasFlag(b, ENABLE_OPERATION)

\* the positions in tr of the control-word writes through sdo
ControlWordWritesAt(tr, sdo) ==
  {i \in 1..Len(tr) : IsControlWordWrite(tr[i], sdo)}

C16_NoDirectJump ==
  [][\A h \in Handles :
       (HasTask(h) \/ HasTaskAfter(h))
         => LET sdo == IF HasTask(h) THEN TaskOf(h).writeFramesList[SDO + 1]
                       ELSE TaskAfter(h).writeFramesList[SDO + 1]
                before == IF HasTask(h) THEN hist[h].sent ELSE <<>>
                words == before \o ControlWordsSent(trace', sdo)
                at == ControlWordWritesAt(trace', sdo)
            IN /\ \A i \in 1..(Len(words) - 1) :
                    /\ ~(Disabled(words[i]) /\ Enabled(words[i + 1]))
                    /\ ~(Enabled(words[i]) /\ Disabled(words[i + 1]))
               /\ \A i \in at :
                    LET n == Cardinality({j \in at : j <= i}) + Len(before)
                    IN (/\ n > 1
                        /\ ~Intermediate(words[n])
                        /\ ~SameCommand(words[n - 1], words[n]))
                         => /\ Intermediate(words[n - 1])
                            /\ i >= 3
                            /\ trace'[i - 1] = SettleDelay
                            /\ trace'[i - 2] = ControlWordWrite(sdo, words[n - 1])]_vars

\* C16 witness: an acquisition took a Task from disabled (6) to enabled (15)
\* through the intermediate word 7 and the settle delay.
C16_Witness ==
  /\ last.op = "AcquireOutputChannel"
  /\ last.ret = 1
  /\ hist[last.taskID].sent = <<15>>
  /\ ControlWordsSent(trace, TaskOf(last.taskID).writeFramesList[SDO + 1]) = <<7, 15>>
  /\ trace[3] = <<"Delay", 200>>

\* C17: baseline on construction. A registration that creates a Task
\* allocates its 6 frames and then makes one service-data write, the first
\* for the Task: the control word 6 (enable-voltage, quick-stop) to 0x6040:0.
\* A registration whose construction fails makes no service-data write.
BaselineWritten ==
  (last.op = "InitDevice" /\ ~last.found /\ ~ConstructionFailed)
    => LET sdo == TaskOf(last.taskID).writeFramesList[SDO + 1]
       IN /\ Len(trace) = 7
          /\ \A i \in 1..6 : trace[i][1] = "InitFrame" /\ trace[i][5] # 0
          /\ trace[7] = ControlWordWrite(sdo, 6)
          /\ hist[last.taskID].sent = <<6>>
          /\ ~hist[last.taskID].held

FailureWritesNothing ==
  ConstructionFailed => CallsOf("WriteSingleValue") = {}

C17_BaselineOnConstruction == BaselineWritten /\ FailureWritesNothing

\* C18: order of the transport calls in the data path. A successful Read
\* makes exactly one bus sync, then reads the Task's inbound PDO01 frame,
\* then its inbound PDO02 frame. A Write on a registered handle writes the
\* Task's outbound PDO01 frame, then its outbound PDO02 frame, then makes
\* exactly one bus sync.
IsFrameOf(h, task, type, dir) ==
  /\ h \in TaskFrames(task)
  /\ h \in DOMAIN frames
  /\ frames[h].type = type
  /\ frames[h].dir = dir

UsesFrame(ev) == ev[1] \in {"WriteSingleValue", "FrameRead", "FrameWrite"}

\* the binding h (not NULL) is live when call i of the calls tr is made:
\* allocated before the step or earlier in it, and not ended earlier in it
LiveAt(tr, i, h) ==
  /\ \/ h \in DOMAIN frames
     \/ \E j \in 1..(i - 1) : tr[j][1] = "InitFrame" /\ tr[j][5] = h
  /\ \A j \in 1..(i - 1) : tr[j] # <<"EndFrame", h>>

C19_DisableBeforeRelease ==
  [][/\ (last'.op = "EndDevice" /\ last'.found)
          => LET h == last'.taskID
                 sdo == TaskOf(h).writeFramesList[SDO + 1]
                 words == ControlWordsSent(trace', sdo)
             IN /\ Len(words) = 2
                /\ Disabled(words[2]) /\ ~Enabled(words[2])
                /\ \A i \in ControlWordWritesAt(trace', sdo) :
                     \A j \in 1..Len(trace') :
                       trace'[j][1] = "EndFrame" => i < j
                /\ \A f \in TaskFrames(TaskOf(h)) :
                     /\ f \notin DOMAIN frames'
                     /\ \E j \in 1..Len(trace') : trace'[j] = <<"EndFrame", f>>
                /\ ~HasTaskAfter(h)
     /\ \A i \in 1..Len(trace') :
          (UsesFrame(trace'[i]) /\ trace'[i][2] # 0)
            => LiveAt(trace', i, trace'[i][2])]_vars

\* C19 witness: a Task was unregistered while another stays registered: the
\* call sent 7 and 6 and then ended the 6 frames.
C19_Witness ==
  /\ last.op = "EndDevice"
  /\ last.found
  /\ RegisteredKeys # {}
  /\ Len(trace) = 9
  /\ trace[1][5] = 7
  /\ trace[3][5] = 6
  /\ \A j \in 4..9 : trace[j][1] = "EndFrame"

\* C20: between operations, the controlWord of every registered Task has
\* enable-voltage and quick-stop set and fault-reset clear, and the usage
\* flag is set exactly when switch-on and enable-operation are both set: the
\* word is 6 when no output channel is acquired and 15 when one is.
C20_ControlWordInvariant ==
  \A k \in RegisteredKeys :
    LET cw == TaskOf(k).controlWord
        used == TaskOf(k).isOutputChannelUsed
    IN /\ HasFlag(cw, ENABLE_VOLTAGE)
       /\ HasFlag(cw, QUICK_STOP)
       /\ ~HasFlag(cw, FAULT_RESET)
       /\ used <=> (HasFlag(cw, SWITCH_ON) /\ HasFlag(cw, ENABLE_OPERATION))
       /\ cw = IF used THEN 15 ELSE 6

\* C20 witness: after a Reset, one Task holds an output channel with word 15
\* and another, registered as well, holds none with word 6.
C20_Witness ==
  /\ last.op = "Reset"
  /\ last.found
  /\ \E k1, k2 \in RegisteredKeys :
       /\ TaskOf(k1).isOutputChannelUsed /\ TaskOf(k1).controlWord = 15
       /\ ~TaskOf(k2).isOutputChannelUsed /\ TaskOf(k2).controlWord = 6

====
